---- MODULE Spec2Model ----
(***************************************************************************)
(* A model of tests/api-reliability-test/analyze_results.py: the scan of   *)
(* one session (analyze_session), the discovery of sessions                *)
(* (find_latest_sessions) and the report (main).                           *)
(*                                                                         *)
(* Python strings are sequences of one-character strings.  A JSON value    *)
(* is a record tagged by its Python type (field t); json.loads raising is  *)
(* the value Malformed.  A dict is a function from its keys to its values, *)
(* so that a key the code never set is outside its DOMAIN.                 *)
(***************************************************************************)
EXTENDS Integers, Sequences, FiniteSets, TLC

\* ------------------------------------------------------------------ bounds

\* The lines read from the files of one session (dataset.jsonl, session.log).
MaxLines == 4

\* The session directories under the base directory.
NumSessions == 2

\* The pieces of a config text.
MaxTokens == 3

\* ------------------------------------------------------- program constants

\* len(analysis['sample_incomplete']) < 3
SampleCap == 3
\* output_text[-60:]
EndingLen == 60
\* if job_count >= 90
StressJobs == 90
\* success >= 90 / success < 50
ReliableRate == 90
UnreliableRate == 50

\* ------------------------------------------------------------ Python values

PyNone == [t |-> "None"]
PyBool(b) == [t |-> "bool", v |-> b]
PyInt(n) == [t |-> "int", v |-> n]
PyStr(s) == [t |-> "str", v |-> s]
PyList(s) == [t |-> "list", v |-> s]
PyDict(f) == [t |-> "dict", v |-> f]
\* json.loads(line) raised
Malformed == [t |-> "malformed"]
\* A line whose bytes are no text in the encoding of open(path, 'r'): the
\* iteration of the file raises UnicodeDecodeError and json.loads is not reached.
Undecodable == [t |-> "undecodable"]

IsStr(x) == x.t = "str"
IsList(x) == x.t = "list"
IsDict(x) == x.t = "dict"

\* key in d
HasKey(d, key) == key \in DOMAIN d.v
\* d.get(key, default)
Get(d, key, default) == IF HasKey(d, key) THEN d.v[key] ELSE default
\* d[key] = value
SetKey(d, key, value) ==
    [k \in DOMAIN d \cup {key} |-> IF k = key THEN value ELSE d[k]]

Min(a, b) == IF a < b THEN a ELSE b
Max(a, b) == IF a > b THEN a ELSE b

\* ----------------------------------------------------------- Python strings

\* sub in s
Contains(s, sub) ==
    \E i \in 1..(Len(s) - Len(sub) + 1) : SubSeq(s, i, i + Len(sub) - 1) = sub

\* the characters str.strip() removes (ASCII whitespace)
Whitespace == {" ", "\t", "\n", "\r", "\f"}

RECURSIVE LStrip(_)
LStrip(s) ==
    IF s # <<>> /\ Head(s) \in Whitespace THEN LStrip(Tail(s)) ELSE s

RECURSIVE RStrip(_)
RStrip(s) ==
    IF s # <<>> /\ s[Len(s)] \in Whitespace THEN RStrip(SubSeq(s, 1, Len(s) - 1)) ELSE s

\* a strip() that forgets the trailing whitespace
StripLeftOnly(s) == LStrip(s)

\* s.strip()
Strip(s) == RStrip(LStrip(s))

UpperCase ==
    <<"A", "B", "C", "D", "E", "F", "G", "H", "I", "J", "K", "L", "M",
      "N", "O", "P", "Q", "R", "S", "T", "U", "V", "W", "X", "Y", "Z">>
LowerCase ==
    <<"a", "b", "c", "d", "e", "f", "g", "h", "i", "j", "k", "l", "m",
      "n", "o", "p", "q", "r", "s", "t", "u", "v", "w", "x", "y", "z">>

LowerChar(c) ==
    IF \E i \in 1..26 : UpperCase[i] = c
    THEN LowerCase[CHOOSE i \in 1..26 : UpperCase[i] = c]
    ELSE c

\* s.lower()
Lower(s) == [i \in 1..Len(s) |-> LowerChar(s[i])]

Digits == <<"0", "1", "2", "3", "4", "5", "6", "7", "8", "9">>

RECURSIVE NatToStr(_)
NatToStr(n) ==
    IF n < 10 THEN <<Digits[n + 1]>> ELSE NatToStr(n \div 10) \o <<Digits[(n % 10) + 1]>>

\* str(x), for the values the model feeds it: strings, None, integers, booleans
\* and the empty list
PyStrOf(x) ==
    CASE x.t = "str" -> x.v
      [] x.t = "None" -> <<"N", "o", "n", "e">>
      [] x.t = "int" -> IF x.v < 0 THEN <<"-">> \o NatToStr(-x.v) ELSE NatToStr(x.v)
      [] x.t = "bool" -> IF x.v THEN <<"T", "r", "u", "e">> ELSE <<"F", "a", "l", "s", "e">>
      [] x.t = "list" /\ x.v = <<>> -> <<"[", "]">>

\* s[-n:]
LastChars(s, n) == SubSeq(s, Max(1, Len(s) - n + 1), Len(s))

\* ---------------------------------------------------- literals of the source

NAHCROF ==
    <<"n", "a", "h", "c", "r", "o", "f">>
CHUTES ==
    <<"c", "h", "u", "t", "e", "s">>
INCOMPLETE_OUTPUT_DETECTED ==
    <<"I", "n", "c", "o", "m", "p", "l", "e", "t", "e", " ", "o", "u", "t", "p", "u", "t", " ",
      "d", "e", "t", "e", "c", "t", "e", "d">>
INVALID_FINISH_REASON ==
    <<"I", "n", "v", "a", "l", "i", "d", " ", "f", "i", "n", "i", "s", "h", "_", "r", "e", "a",
      "s", "o", "n">>
REFUSED ==
    <<"r", "e", "f", "u", "s", "e", "d">>
CHOSEN_RESPONSE ==
    <<"C", "h", "o", "s", "e", "n", " ", "r", "e", "s", "p", "o", "n", "s", "e">>
GENERATION_PIPELINE_COMPLETED ==
    <<"G", "e", "n", "e", "r", "a", "t", "i", "o", "n", " ", "p", "i", "p", "e", "l", "i", "n",
      "e", " ", "c", "o", "m", "p", "l", "e", "t", "e", "d">>
JOB_PROCESSING_BREAKDOWN ==
    <<"J", "o", "b", " ", "p", "r", "o", "c", "e", "s", "s", "i", "n", "g", " ", "b", "r", "e",
      "a", "k", "d", "o", "w", "n">>
JOB_FAILED ==
    <<"J", "o", "b", " ", "f", "a", "i", "l", "e", "d">>
WARN ==
    <<"W", "A", "R", "N">>
ERROR ==
    <<"E", "R", "R", "O", "R">>


OUTPUT_SESSION_PREFIX ==
    <<"o", "u", "t", "p", "u", "t", "/", "s", "e", "s", "s", "i", "o", "n", "_", "2", "0", "2",
      "5", "-", "1", "1", "-">>
NahcrofConfig ==
    <<"[", "p", "r", "o", "v", "i", "d", "e", "r", "]", "\n", "b", "a", "s", "e", "_", "u",
      "r", "l", " ", "=", " ", "\"", "h", "t", "t", "p", "s", ":", "/", "/", "a", "i", ".",
      "n", "a", "h", "c", "r", "o", "f", ".", "c", "o", "m", "/", "v", "2", "\"", "\n">>
ChutesConfig ==
    <<"[", "p", "r", "o", "v", "i", "d", "e", "r", "]", "\n", "b", "a", "s", "e", "_", "u",
      "r", "l", " ", "=", " ", "\"", "h", "t", "t", "p", "s", ":", "/", "/", "l", "l", "m",
      ".", "c", "h", "u", "t", "e", "s", ".", "a", "i", "/", "v", "1", "\"", "\n">>
TomlKey ==
    <<"b", "a", "s", "e", "_", "u", "r", "l", " ", "=", " ">>
Ascii ==
    <<"-", "/", "0", "1", "2", "3", "4", "5", "6", "7", "8", "9", ":", "T", "_", "a", "b", "c",
      "d", "e", "f", "g", "h", "i", "j", "k", "l", "m", "n", "o", "p", "q", "r", "s", "t", "u",
      "v", "w", "x", "y", "z">>

\* ------------------------------------------------- lines of dataset.jsonl

\* {"output": "The end."}   (Example 1 of the documentation: complete)
DatasetLine1 ==
    [json |-> PyDict([output |-> PyStr(<<"T", "h", "e", " ", "e", "n", "d", ".">>)])]
\* {"output": "and then"}   (Example 2: incomplete, shorter than 60 characters)
DatasetLine2 ==
    [json |-> PyDict([output |-> PyStr(<<"a", "n", "d", " ", "t", "h", "e", "n">>)])]
\* {"conversations": [{"from": "human", "value": "hi"}, {"from": "gpt", "value": "Yes!"}]}   (Example 3: turn sequence)
DatasetLine3 ==
    [json |-> PyDict([conversations |-> PyList(<<PyDict([from |-> PyStr(<<"h", "u", "m", "a",
          "n">>), value |-> PyStr(<<"h", "i">>)]), PyDict([from |-> PyStr(<<"g", "p", "t">>),
          value |-> PyStr(<<"Y", "e", "s", "!">>)])>>)])]
\* {"output": "  \n"}   (whitespace only)
DatasetLine4 ==
    [json |-> PyDict([output |-> PyStr(<<" ", " ", "\n">>)])]
\* {"conversations": [{"value": ""}]}   (empty value in a turn sequence)
DatasetLine5 ==
    [json |-> PyDict([conversations |-> PyList(<<PyDict([value |-> PyStr(<<>>)])>>)])]
\* {"output": " say \"hi\" \n"}   (ends in a double quote once trimmed)
DatasetLine6 ==
    [json |-> PyDict([output |-> PyStr(<<" ", "s", "a", "y", " ", "\"", "h", "i", "\"", " ",
          "\n">>)])]
\* {"output": "Really?"}   (ends in a question mark)
DatasetLine7 ==
    [json |-> PyDict([output |-> PyStr(<<"R", "e", "a", "l", "l", "y", "?">>)])]
\* {"output": "end. then\t"}   (a full stop that is not last)
DatasetLine8 ==
    [json |-> PyDict([output |-> PyStr(<<"e", "n", "d", ".", " ", "t", "h", "e", "n", "\t">>)])]
\* {"output": " Zthe quick brown fox jumps over the lazy dog and keeps runnix \n"}   (61 characters once trimmed)
DatasetLine9 ==
    [json |-> PyDict([output |-> PyStr(<<" ", "Z", "t", "h", "e", " ", "q", "u", "i", "c", "k",
          " ", "b", "r", "o", "w", "n", " ", "f", "o", "x", " ", "j", "u", "m", "p", "s", " ",
          "o", "v", "e", "r", " ", "t", "h", "e", " ", "l", "a", "z", "y", " ", "d", "o", "g",
          " ", "a", "n", "d", " ", "k", "e", "e", "p", "s", " ", "r", "u", "n", "n", "i", "x",
          " ", "\n">>)])]
\* {"output": null}   (output is null)
DatasetLine10 ==
    [json |-> PyDict([output |-> PyNone])]
\* {"output": 42}   (output is a number)
DatasetLine11 ==
    [json |-> PyDict([output |-> PyInt(42)])]
\* {"output": 5, "conversations": [{"value": "Fine."}]}   (both keys, output not a string)
DatasetLine12 ==
    [json |-> PyDict([output |-> PyInt(5),
          conversations |-> PyList(<<PyDict([value |-> PyStr(<<"F", "i", "n", "e", ".">>)])>>)])]
\* {"conversations": [{"from": "gpt", "value": 7}]}   (last value is a number)
DatasetLine13 ==
    [json |-> PyDict([conversations |-> PyList(<<PyDict([from |-> PyStr(<<"g", "p", "t">>),
          value |-> PyInt(7)])>>)])]
\* {"conversations": [{"value": "Hi."}, "tail"]}   (last turn is not an object)
DatasetLine14 ==
    [json |-> PyDict([conversations |-> PyList(<<PyDict([value |-> PyStr(<<"H", "i", ".">>)]),
          PyStr(<<"t", "a", "i", "l">>)>>)])]
\* {"conversations": [{"from": "gpt"}]}   (last turn has no value)
DatasetLine15 ==
    [json |-> PyDict([conversations |-> PyList(<<PyDict([from |-> PyStr(<<"g", "p", "t">>)])>>)])]
\* {"conversations": []}   (empty turn sequence)
DatasetLine16 ==
    [json |-> PyDict([conversations |-> PyList(<<>>)])]
\* {"conversations": "abc"}   (conversations is not a list)
DatasetLine17 ==
    [json |-> PyDict([conversations |-> PyStr(<<"a", "b", "c">>)])]
\* {"text": "other."}   (neither shape)
DatasetLine18 ==
    [json |-> PyDict([text |-> PyStr(<<"o", "t", "h", "e", "r", ".">>)])]
\* ["output"]   (not an object)
DatasetLine19 ==
    [json |-> PyList(<<PyStr(<<"o", "u", "t", "p", "u", "t">>)>>)]
\* {"output": "cut   (malformed JSON)
DatasetLine20 ==
    [json |-> Malformed]
\* the bytes 0xff 0xfe   (no text in UTF-8)
DatasetLine21 ==
    [json |-> Undecodable]
DatasetLines ==
    <<DatasetLine1, DatasetLine2, DatasetLine3, DatasetLine4, DatasetLine5, DatasetLine6,
          DatasetLine7, DatasetLine8, DatasetLine9, DatasetLine10, DatasetLine11, DatasetLine12,
          DatasetLine13, DatasetLine14, DatasetLine15, DatasetLine16, DatasetLine17,
          DatasetLine18, DatasetLine19, DatasetLine20,
          DatasetLine21>>

\* {"level":"INFO","msg":"Job processing breakdown"}   (a job line)
LogLine1 ==
    [raw |-> <<"{", "\"", "l", "e", "v", "e", "l", "\"", ":", "\"", "I", "N", "F", "O", "\"",
          ",", "\"", "m", "s", "g", "\"", ":", "\"", "J", "o", "b", " ", "p", "r", "o", "c", "e",
          "s", "s", "i", "n", "g", " ", "b", "r", "e", "a", "k", "d", "o", "w", "n", "\"", "}">>,
     json |-> PyDict([level |-> PyStr(<<"I", "N", "F", "O">>), msg |-> PyStr(<<"J", "o", "b",
           " ", "p", "r", "o", "c", "e", "s", "s", "i", "n", "g", " ", "b", "r", "e", "a", "k",
           "d", "o", "w", "n">>)])]
\* {"level":"ERROR","msg":"Job failed"}   (a job line of level ERROR, no failure tag)
LogLine2 ==
    [raw |-> <<"{", "\"", "l", "e", "v", "e", "l", "\"", ":", "\"", "E", "R", "R", "O", "R",
          "\"", ",", "\"", "m", "s", "g", "\"", ":", "\"", "J", "o", "b", " ", "f", "a", "i",
          "l", "e", "d", "\"", "}">>,
     json |-> PyDict([level |-> PyStr(<<"E", "R", "R", "O", "R">>), msg |-> PyStr(<<"J", "o",
           "b", " ", "f", "a", "i", "l", "e", "d">>)])]
\* {"level":"WARN","msg":"Incomplete output detected for job 42"}   (Example 4)
LogLine3 ==
    [raw |-> <<"{", "\"", "l", "e", "v", "e", "l", "\"", ":", "\"", "W", "A", "R", "N", "\"",
          ",", "\"", "m", "s", "g", "\"", ":", "\"", "I", "n", "c", "o", "m", "p", "l", "e", "t",
          "e", " ", "o", "u", "t", "p", "u", "t", " ", "d", "e", "t", "e", "c", "t", "e", "d",
          " ", "f", "o", "r", " ", "j", "o", "b", " ", "4", "2", "\"", "}">>,
     json |-> PyDict([level |-> PyStr(<<"W", "A", "R", "N">>), msg |-> PyStr(<<"I", "n", "c",
           "o", "m", "p", "l", "e", "t", "e", " ", "o", "u", "t", "p", "u", "t", " ", "d", "e",
           "t", "e", "c", "t", "e", "d", " ", "f", "o", "r", " ", "j", "o", "b", " ", "4",
           "2">>)])]
\* {"level":"ERROR","msg":"Invalid finish_reason: length"}
LogLine4 ==
    [raw |-> <<"{", "\"", "l", "e", "v", "e", "l", "\"", ":", "\"", "E", "R", "R", "O", "R",
          "\"", ",", "\"", "m", "s", "g", "\"", ":", "\"", "I", "n", "v", "a", "l", "i", "d",
          " ", "f", "i", "n", "i", "s", "h", "_", "r", "e", "a", "s", "o", "n", ":", " ", "l",
          "e", "n", "g", "t", "h", "\"", "}">>,
     json |-> PyDict([level |-> PyStr(<<"E", "R", "R", "O", "R">>), msg |-> PyStr(<<"I", "n",
           "v", "a", "l", "i", "d", " ", "f", "i", "n", "i", "s", "h", "_", "r", "e", "a", "s",
           "o", "n", ":", " ", "l", "e", "n", "g", "t", "h">>)])]
\* {"level":"WARN","msg":"Chosen response refused by model"}
LogLine5 ==
    [raw |-> <<"{", "\"", "l", "e", "v", "e", "l", "\"", ":", "\"", "W", "A", "R", "N", "\"",
          ",", "\"", "m", "s", "g", "\"", ":", "\"", "C", "h", "o", "s", "e", "n", " ", "r", "e",
          "s", "p", "o", "n", "s", "e", " ", "r", "e", "f", "u", "s", "e", "d", " ", "b", "y",
          " ", "m", "o", "d", "e", "l", "\"", "}">>,
     json |-> PyDict([level |-> PyStr(<<"W", "A", "R", "N">>), msg |-> PyStr(<<"C", "h", "o",
           "s", "e", "n", " ", "r", "e", "s", "p", "o", "n", "s", "e", " ", "r", "e", "f", "u",
           "s", "e", "d", " ", "b", "y", " ", "m", "o", "d", "e", "l">>)])]
\* {"level":"WARN","msg":"Chosen response: I REFUSED"}   (refused in upper case)
LogLine6 ==
    [raw |-> <<"{", "\"", "l", "e", "v", "e", "l", "\"", ":", "\"", "W", "A", "R", "N", "\"",
          ",", "\"", "m", "s", "g", "\"", ":", "\"", "C", "h", "o", "s", "e", "n", " ", "r", "e",
          "s", "p", "o", "n", "s", "e", ":", " ", "I", " ", "R", "E", "F", "U", "S", "E", "D",
          "\"", "}">>,
     json |-> PyDict([level |-> PyStr(<<"W", "A", "R", "N">>), msg |-> PyStr(<<"C", "h", "o",
           "s", "e", "n", " ", "r", "e", "s", "p", "o", "n", "s", "e", ":", " ", "I", " ", "R",
           "E", "F", "U", "S", "E", "D">>)])]
\* {"level":"WARN","msg":"chosen response refused"}   (chosen in lower case)
LogLine7 ==
    [raw |-> <<"{", "\"", "l", "e", "v", "e", "l", "\"", ":", "\"", "W", "A", "R", "N", "\"",
          ",", "\"", "m", "s", "g", "\"", ":", "\"", "c", "h", "o", "s", "e", "n", " ", "r", "e",
          "s", "p", "o", "n", "s", "e", " ", "r", "e", "f", "u", "s", "e", "d", "\"", "}">>,
     json |-> PyDict([level |-> PyStr(<<"W", "A", "R", "N">>), msg |-> PyStr(<<"c", "h", "o",
           "s", "e", "n", " ", "r", "e", "s", "p", "o", "n", "s", "e", " ", "r", "e", "f", "u",
           "s", "e", "d">>)])]
\* {"level":"ERROR","msg":"Model refused"}   (refused without Chosen response)
LogLine8 ==
    [raw |-> <<"{", "\"", "l", "e", "v", "e", "l", "\"", ":", "\"", "E", "R", "R", "O", "R",
          "\"", ",", "\"", "m", "s", "g", "\"", ":", "\"", "M", "o", "d", "e", "l", " ", "r",
          "e", "f", "u", "s", "e", "d", "\"", "}">>,
     json |-> PyDict([level |-> PyStr(<<"E", "R", "R", "O", "R">>), msg |-> PyStr(<<"M", "o",
           "d", "e", "l", " ", "r", "e", "f", "u", "s", "e", "d">>)])]
\* {"level":"ERROR","msg":"Incomplete output detected; Invalid finish_reason"}   (two patterns)
LogLine9 ==
    [raw |-> <<"{", "\"", "l", "e", "v", "e", "l", "\"", ":", "\"", "E", "R", "R", "O", "R",
          "\"", ",", "\"", "m", "s", "g", "\"", ":", "\"", "I", "n", "c", "o", "m", "p", "l",
          "e", "t", "e", " ", "o", "u", "t", "p", "u", "t", " ", "d", "e", "t", "e", "c", "t",
          "e", "d", ";", " ", "I", "n", "v", "a", "l", "i", "d", " ", "f", "i", "n", "i", "s",
          "h", "_", "r", "e", "a", "s", "o", "n", "\"", "}">>,
     json |-> PyDict([level |-> PyStr(<<"E", "R", "R", "O", "R">>), msg |-> PyStr(<<"I", "n",
           "c", "o", "m", "p", "l", "e", "t", "e", " ", "o", "u", "t", "p", "u", "t", " ", "d",
           "e", "t", "e", "c", "t", "e", "d", ";", " ", "I", "n", "v", "a", "l", "i", "d", " ",
           "f", "i", "n", "i", "s", "h", "_", "r", "e", "a", "s", "o", "n">>)])]
\* {"level":"WARN","msg":"Invalid finish_reason; Chosen response refused"}   (two patterns)
LogLine10 ==
    [raw |-> <<"{", "\"", "l", "e", "v", "e", "l", "\"", ":", "\"", "W", "A", "R", "N", "\"",
          ",", "\"", "m", "s", "g", "\"", ":", "\"", "I", "n", "v", "a", "l", "i", "d", " ", "f",
          "i", "n", "i", "s", "h", "_", "r", "e", "a", "s", "o", "n", ";", " ", "C", "h", "o",
          "s", "e", "n", " ", "r", "e", "s", "p", "o", "n", "s", "e", " ", "r", "e", "f", "u",
          "s", "e", "d", "\"", "}">>,
     json |-> PyDict([level |-> PyStr(<<"W", "A", "R", "N">>), msg |-> PyStr(<<"I", "n", "v",
           "a", "l", "i", "d", " ", "f", "i", "n", "i", "s", "h", "_", "r", "e", "a", "s", "o",
           "n", ";", " ", "C", "h", "o", "s", "e", "n", " ", "r", "e", "s", "p", "o", "n", "s",
           "e", " ", "r", "e", "f", "u", "s", "e", "d">>)])]
\* {"level":"WARN","msg":"Incomplete output detected; Chosen response refused"}   (two patterns)
LogLine11 ==
    [raw |-> <<"{", "\"", "l", "e", "v", "e", "l", "\"", ":", "\"", "W", "A", "R", "N", "\"",
          ",", "\"", "m", "s", "g", "\"", ":", "\"", "I", "n", "c", "o", "m", "p", "l", "e", "t",
          "e", " ", "o", "u", "t", "p", "u", "t", " ", "d", "e", "t", "e", "c", "t", "e", "d",
          ";", " ", "C", "h", "o", "s", "e", "n", " ", "r", "e", "s", "p", "o", "n", "s", "e",
          " ", "r", "e", "f", "u", "s", "e", "d", "\"", "}">>,
     json |-> PyDict([level |-> PyStr(<<"W", "A", "R", "N">>), msg |-> PyStr(<<"I", "n", "c",
           "o", "m", "p", "l", "e", "t", "e", " ", "o", "u", "t", "p", "u", "t", " ", "d", "e",
           "t", "e", "c", "t", "e", "d", ";", " ", "C", "h", "o", "s", "e", "n", " ", "r", "e",
           "s", "p", "o", "n", "s", "e", " ", "r", "e", "f", "u", "s", "e", "d">>)])]
\* {"level":"INFO","msg":"Incomplete output detected"}   (level INFO)
LogLine12 ==
    [raw |-> <<"{", "\"", "l", "e", "v", "e", "l", "\"", ":", "\"", "I", "N", "F", "O", "\"",
          ",", "\"", "m", "s", "g", "\"", ":", "\"", "I", "n", "c", "o", "m", "p", "l", "e", "t",
          "e", " ", "o", "u", "t", "p", "u", "t", " ", "d", "e", "t", "e", "c", "t", "e", "d",
          "\"", "}">>,
     json |-> PyDict([level |-> PyStr(<<"I", "N", "F", "O">>), msg |-> PyStr(<<"I", "n", "c",
           "o", "m", "p", "l", "e", "t", "e", " ", "o", "u", "t", "p", "u", "t", " ", "d", "e",
           "t", "e", "c", "t", "e", "d">>)])]
\* {"level":"warn","msg":"Invalid finish_reason"}   (level in lower case)
LogLine13 ==
    [raw |-> <<"{", "\"", "l", "e", "v", "e", "l", "\"", ":", "\"", "w", "a", "r", "n", "\"",
          ",", "\"", "m", "s", "g", "\"", ":", "\"", "I", "n", "v", "a", "l", "i", "d", " ", "f",
          "i", "n", "i", "s", "h", "_", "r", "e", "a", "s", "o", "n", "\"", "}">>,
     json |-> PyDict([level |-> PyStr(<<"w", "a", "r", "n">>), msg |-> PyStr(<<"I", "n", "v",
           "a", "l", "i", "d", " ", "f", "i", "n", "i", "s", "h", "_", "r", "e", "a", "s", "o",
           "n">>)])]
\* {"level":"INFO","msg":"Generation pipeline completed","total_prompts":100,"successful":98,"failed":2}   (pipeline summary)
LogLine14 ==
    [raw |-> <<"{", "\"", "l", "e", "v", "e", "l", "\"", ":", "\"", "I", "N", "F", "O", "\"",
          ",", "\"", "m", "s", "g", "\"", ":", "\"", "G", "e", "n", "e", "r", "a", "t", "i", "o",
          "n", " ", "p", "i", "p", "e", "l", "i", "n", "e", " ", "c", "o", "m", "p", "l", "e",
          "t", "e", "d", "\"", ",", "\"", "t", "o", "t", "a", "l", "_", "p", "r", "o", "m", "p",
          "t", "s", "\"", ":", "1", "0", "0", ",", "\"", "s", "u", "c", "c", "e", "s", "s", "f",
          "u", "l", "\"", ":", "9", "8", ",", "\"", "f", "a", "i", "l", "e", "d", "\"", ":", "2",
          "}">>,
     json |-> PyDict([level |-> PyStr(<<"I", "N", "F", "O">>), msg |-> PyStr(<<"G", "e", "n",
           "e", "r", "a", "t", "i", "o", "n", " ", "p", "i", "p", "e", "l", "i", "n", "e", " ",
           "c", "o", "m", "p", "l", "e", "t", "e", "d">>), total_prompts |-> PyInt(100),
           successful |-> PyInt(98), failed |-> PyInt(2)])]
\* {"level":"WARN","msg":"Generation pipeline completed"}   (pipeline summary without fields)
LogLine15 ==
    [raw |-> <<"{", "\"", "l", "e", "v", "e", "l", "\"", ":", "\"", "W", "A", "R", "N", "\"",
          ",", "\"", "m", "s", "g", "\"", ":", "\"", "G", "e", "n", "e", "r", "a", "t", "i", "o",
          "n", " ", "p", "i", "p", "e", "l", "i", "n", "e", " ", "c", "o", "m", "p", "l", "e",
          "t", "e", "d", "\"", "}">>,
     json |-> PyDict([level |-> PyStr(<<"W", "A", "R", "N">>), msg |-> PyStr(<<"G", "e", "n",
           "e", "r", "a", "t", "i", "o", "n", " ", "p", "i", "p", "e", "l", "i", "n", "e", " ",
           "c", "o", "m", "p", "l", "e", "t", "e", "d">>)])]
\* {"level":"WARN","msg":null}   (msg is null)
LogLine16 ==
    [raw |-> <<"{", "\"", "l", "e", "v", "e", "l", "\"", ":", "\"", "W", "A", "R", "N", "\"",
          ",", "\"", "m", "s", "g", "\"", ":", "n", "u", "l", "l", "}">>,
     json |-> PyDict([level |-> PyStr(<<"W", "A", "R", "N">>), msg |-> PyNone])]
\* {"level":"ERROR"}   (no msg)
LogLine17 ==
    [raw |-> <<"{", "\"", "l", "e", "v", "e", "l", "\"", ":", "\"", "E", "R", "R", "O", "R",
          "\"", "}">>,
     json |-> PyDict([level |-> PyStr(<<"E", "R", "R", "O", "R">>)])]
\* {"msg":"Invalid finish_reason"}   (no level)
LogLine18 ==
    [raw |-> <<"{", "\"", "m", "s", "g", "\"", ":", "\"", "I", "n", "v", "a", "l", "i", "d", " ",
          "f", "i", "n", "i", "s", "h", "_", "r", "e", "a", "s", "o", "n", "\"", "}">>,
     json |-> PyDict([msg |-> PyStr(<<"I", "n", "v", "a", "l", "i", "d", " ", "f", "i", "n", "i",
           "s", "h", "_", "r", "e", "a", "s", "o", "n">>)])]
\* {"level":"WARN","msg":["Incomplete output detected"]}   (msg is a list)
LogLine19 ==
    [raw |-> <<"{", "\"", "l", "e", "v", "e", "l", "\"", ":", "\"", "W", "A", "R", "N", "\"",
          ",", "\"", "m", "s", "g", "\"", ":", "[", "\"", "I", "n", "c", "o", "m", "p", "l", "e",
          "t", "e", " ", "o", "u", "t", "p", "u", "t", " ", "d", "e", "t", "e", "c", "t", "e",
          "d", "\"", "]", "}">>,
     json |-> PyDict([level |-> PyStr(<<"W", "A", "R", "N">>), msg |-> PyList(<<PyStr(<<"I", "n",
           "c", "o", "m", "p", "l", "e", "t", "e", " ", "o", "u", "t", "p", "u", "t", " ", "d",
           "e", "t", "e", "c", "t", "e", "d">>)>>)])]
\* [1, 2]   (not an object)
LogLine20 ==
    [raw |-> <<"[", "1", ",", " ", "2", "]">>,
     json |-> PyList(<<PyInt(1), PyInt(2)>>)]
\* Job failed: {"level":   (malformed JSON that holds a job pattern)
LogLine21 ==
    [raw |-> <<"J", "o", "b", " ", "f", "a", "i", "l", "e", "d", ":", " ", "{", "\"", "l", "e",
          "v", "e", "l", "\"", ":">>,
     json |-> Malformed]
\* the bytes 0xff 0xfe   (no text in UTF-8)
LogLine22 ==
    [raw |-> <<>>,
     json |-> Undecodable]
LogLines ==
    <<LogLine1, LogLine2, LogLine3, LogLine4, LogLine5, LogLine6, LogLine7, LogLine8, LogLine9,
          LogLine10, LogLine11, LogLine12, LogLine13, LogLine14, LogLine15, LogLine16, LogLine17,
          LogLine18, LogLine19, LogLine20, LogLine21, LogLine22>>

\* ---------------------------------------------------------- analyze_session

VARIABLES
    a_pc,        \* where analyze_session stands
    session_dir, \* its argument
    analysis,    \* the dict it builds
    line,        \* the loop variable of the scan under way
    line_of,     \* the file `line' was read from
    before,      \* analysis as it was when `line' was read
    nRead,       \* lines read so far from the files of the session
    result       \* what analyze_session returned

\* `line' before any line is read
NoLine == [json |-> PyNone]
\* `result' before analyze_session returns
NotReturned == [t |-> "pending"]

\* the dict of lines 17-27
NewAnalysis(dir) ==
    [session_dir |-> dir,
     total_records |-> 0,
     complete |-> 0,
     incomplete |-> 0,
     empty |-> 0,
     caught_incomplete |-> 0,
     caught_refusal |-> 0,
     caught_missing_finish |-> 0,
     sample_incomplete |-> <<>>]

\* json.loads(line)
JsonLoads(l) == l.json

\* `for line in f' yields the line: its bytes decode
Decodes(l) == l.json # Undecodable

\* an extraction that accepts strings only and falls through to the turn
\* sequence when "output" holds none
OutputValueStringsOnly(record) ==
    IF HasKey(record, "output") /\ IsStr(record.v["output"])
    THEN [found |-> TRUE, value |-> record.v["output"]]
    ELSE LET conversations == Get(record, "conversations", PyNone)
         IN  IF IsList(conversations) /\ conversations.v # <<>>
             THEN LET last_turn == conversations.v[Len(conversations.v)]
                  IN  IF /\ IsDict(last_turn)
                         /\ HasKey(last_turn, "value")
                         /\ IsStr(last_turn.v["value"])
                      THEN [found |-> TRUE, value |-> last_turn.v["value"]]
                      ELSE [found |-> FALSE]
             ELSE [found |-> FALSE]

\* The value lines 39-44 take the output text from, record a dict: record['output'],
\* or last_turn['value'], or None when neither branch assigns output_text.
OutputValue(record) ==
    IF HasKey(record, "output")
    THEN [found |-> TRUE, value |-> record.v["output"]]
    ELSE LET conversations == Get(record, "conversations", PyNone)
         IN  IF IsList(conversations) /\ conversations.v # <<>>
             THEN LET last_turn == conversations.v[Len(conversations.v)]
                  IN  IF IsDict(last_turn) /\ HasKey(last_turn, "value")
                      THEN [found |-> TRUE, value |-> last_turn.v["value"]]
                      ELSE [found |-> FALSE]
             ELSE [found |-> FALSE]

\* output_text once lines 36-44 have run on a dict: str(value).strip(), or None
OutputText(record) ==
    LET o == OutputValue(record)
    IN  IF o.found THEN PyStr(Strip(PyStrOf(o.value))) ELSE PyNone

\* Lines 35-44 raise: json.loads fails, or the record is no dict ('output' in
\* record raises on a number, record['output'] on a list or a string holding
\* it, record.get on a list or a string without it).
DatasetRaises(record) == record = Malformed \/ ~IsDict(record)

\* the characters of '.!?"'
CompleteEndings == {".", "!", "?", "\""}

\* a sample that keeps the first characters instead of the last
SampleFirstChars(output_text) ==
    [length |-> Len(output_text), ending |-> SubSeq(output_text, 1, Min(EndingLen, Len(output_text)))]

\* the dict appended at lines 58-61
Sample(output_text) ==
    [length |-> Len(output_text), ending |-> LastChars(output_text, EndingLen)]

\* a count that forgets the empty class
CountRecordForgetsEmpty(a, output_text) ==
    LET counted == [a EXCEPT !.total_records = @ + 1]
    IN  IF output_text = <<>>
        THEN counted
        ELSE IF output_text[Len(output_text)] \in {".", "!", "?", "\""}
        THEN [counted EXCEPT !.complete = @ + 1]
        ELSE [counted EXCEPT
                 !.incomplete = @ + 1,
                 !.sample_incomplete =
                     IF Len(@) < SampleCap THEN Append(@, Sample(output_text)) ELSE @]

\* lines 49-61, output_text a string
CountRecord(a, output_text) ==
    LET counted == [a EXCEPT !.total_records = @ + 1]
    IN  IF output_text = <<>>
        THEN [counted EXCEPT !.empty = @ + 1]
        ELSE IF output_text[Len(output_text)] \in CompleteEndings
        THEN [counted EXCEPT !.complete = @ + 1]
        ELSE [counted EXCEPT
                 !.incomplete = @ + 1,
                 !.sample_incomplete =
                     IF Len(@) < SampleCap THEN Append(@, Sample(output_text)) ELSE @]

\* the body of the loop of lines 33-63
DatasetStep(a, l) ==
    LET record == JsonLoads(l)
    IN  IF DatasetRaises(record)
        THEN a
        ELSE LET output_text == OutputText(record)
             IN  IF output_text = PyNone THEN a ELSE CountRecord(a, output_text.v)

\* entry.get('level') in ['WARN', 'ERROR']
IsWarnOrError(entry) ==
    Get(entry, "level", PyNone) \in {PyStr(WARN), PyStr(ERROR)}

\* needle in msg, msg a string or a list
PyIn(needle, msg) ==
    IF IsStr(msg) THEN Contains(msg.v, needle)
    ELSE \E i \in 1..Len(msg.v) : msg.v[i] = PyStr(needle)

\* Lines 71-79 raise: json.loads fails, the entry has no get, `in' is applied
\* to a msg that is no container, or lower() to a list that held neither of
\* the first two patterns.
LogRaises(entry) ==
    \/ entry = Malformed
    \/ ~IsDict(entry)
    \/ /\ IsWarnOrError(entry)
       /\ LET msg == Get(entry, "msg", PyStr(<<>>))
          IN  \/ ~(IsStr(msg) \/ IsList(msg))
              \/ /\ IsList(msg)
                 /\ ~PyIn(INCOMPLETE_OUTPUT_DETECTED, msg)
                 /\ ~PyIn(INVALID_FINISH_REASON, msg)

\* three independent ifs in place of the if/elif chain
CountCaughtEachTag(a, entry) ==
    IF ~IsWarnOrError(entry)
    THEN a
    ELSE LET msg == Get(entry, "msg", PyStr(<<>>))
             a1 == IF PyIn(INCOMPLETE_OUTPUT_DETECTED, msg)
                   THEN [a EXCEPT !.caught_incomplete = @ + 1] ELSE a
             a2 == IF PyIn(INVALID_FINISH_REASON, msg)
                   THEN [a1 EXCEPT !.caught_missing_finish = @ + 1] ELSE a1
         IN  IF IsStr(msg) /\ Contains(Lower(msg.v), REFUSED) /\ Contains(msg.v, CHOSEN_RESPONSE)
             THEN [a2 EXCEPT !.caught_refusal = @ + 1]
             ELSE a2

\* lines 72-79, on an entry that does not raise
CountCaught(a, entry) ==
    IF ~IsWarnOrError(entry)
    THEN a
    ELSE LET msg == Get(entry, "msg", PyStr(<<>>))
         IN  IF PyIn(INCOMPLETE_OUTPUT_DETECTED, msg)
             THEN [a EXCEPT !.caught_incomplete = @ + 1]
             ELSE IF PyIn(INVALID_FINISH_REASON, msg)
             THEN [a EXCEPT !.caught_missing_finish = @ + 1]
             ELSE IF Contains(Lower(msg.v), REFUSED) /\ Contains(msg.v, CHOSEN_RESPONSE)
             THEN [a EXCEPT !.caught_refusal = @ + 1]
             ELSE a

\* lines 82-85
PipelineSummary(a, entry) ==
    IF Get(entry, "msg", PyNone) = PyStr(GENERATION_PIPELINE_COMPLETED)
    THEN SetKey(SetKey(SetKey(a,
             "log_total_prompts", Get(entry, "total_prompts", PyInt(0))),
             "log_successful", Get(entry, "successful", PyInt(0))),
             "log_failed", Get(entry, "failed", PyInt(0)))
    ELSE a

\* the body of the loop of lines 69-87
LogStep(a, l) ==
    LET entry == JsonLoads(l)
    IN  IF LogRaises(entry) THEN a ELSE PipelineSummary(CountCaught(a, entry), entry)

\* lines 14-15 and 17-27: the session directory exists or not
Enter ==
    /\ a_pc = "enter"
    /\ \E exists \in BOOLEAN :
          IF exists
          THEN /\ analysis' = NewAnalysis(session_dir)
               /\ a_pc' = "open_dataset"
               /\ result' = result
          ELSE /\ result' = PyNone
               /\ a_pc' = "returned"
               /\ analysis' = analysis
    /\ UNCHANGED <<session_dir, line, line_of, before, nRead>>

\* line 31: dataset.jsonl exists or not
OpenDataset ==
    /\ a_pc = "open_dataset"
    /\ \E exists \in BOOLEAN : a_pc' = IF exists THEN "dataset" ELSE "open_log"
    /\ UNCHANGED <<session_dir, analysis, line, line_of, before, nRead, result>>

\* lines 33-63: one more line of dataset.jsonl.  The try of line 34 stands
\* inside the loop, so an error of the iteration itself (line 33) is caught
\* nowhere: it leaves analyze_session, which returns nothing.
ReadDatasetLine ==
    /\ a_pc = "dataset"
    /\ nRead < MaxLines
    /\ \E i \in 1..Len(DatasetLines) :
          /\ line' = DatasetLines[i]
          /\ IF Decodes(DatasetLines[i])
             THEN /\ analysis' = DatasetStep(analysis, DatasetLines[i])
                  /\ a_pc' = a_pc
             ELSE /\ analysis' = analysis
                  /\ a_pc' = "raised"
    /\ line_of' = "dataset.jsonl"
    /\ before' = analysis
    /\ nRead' = nRead + 1
    /\ UNCHANGED <<session_dir, result>>

\* the end of dataset.jsonl
DatasetEOF ==
    /\ a_pc = "dataset"
    /\ a_pc' = "open_log"
    /\ UNCHANGED <<session_dir, analysis, line, line_of, before, nRead, result>>

\* line 67: session.log exists or not
OpenLog ==
    /\ a_pc = "open_log"
    /\ \E exists \in BOOLEAN :
          IF exists
          THEN a_pc' = "log" /\ result' = result
          ELSE a_pc' = "returned" /\ result' = analysis
    /\ UNCHANGED <<session_dir, analysis, line, line_of, before, nRead>>

\* lines 69-87: one more line of session.log; the iteration of line 69 stands
\* outside the try of line 70, as at line 33
ReadLogLine ==
    /\ a_pc = "log"
    /\ nRead < MaxLines
    /\ \E i \in 1..Len(LogLines) :
          /\ line' = LogLines[i]
          /\ IF Decodes(LogLines[i])
             THEN /\ analysis' = LogStep(analysis, LogLines[i])
                  /\ a_pc' = a_pc
             ELSE /\ analysis' = analysis
                  /\ a_pc' = "raised"
    /\ line_of' = "session.log"
    /\ before' = analysis
    /\ nRead' = nRead + 1
    /\ UNCHANGED <<session_dir, result>>

\* the end of session.log, and line 89
LogEOF ==
    /\ a_pc = "log"
    /\ a_pc' = "returned"
    /\ result' = analysis
    /\ UNCHANGED <<session_dir, analysis, line, line_of, before, nRead>>

session_vars == <<a_pc, session_dir, analysis, line, line_of, before, nRead, result>>

\* ------------------------------------------------------- provider detection

VARIABLES
    p_pc,           \* where lines 169-177 stand
    config_exists,  \* os.path.exists(config_path)
    content,        \* the text of config.toml.bak
    provider_name   \* the provider main settles on

\* a detection that looks for chutes first
DetectProviderChutesFirst(exists, text) ==
    IF ~exists THEN "unknown"
    ELSE IF Contains(text, CHUTES) THEN "chutes"
    ELSE IF Contains(text, NAHCROF) THEN "nahcrof"
    ELSE "unknown"

\* lines 170-177
DetectProvider(exists, text) ==
    IF ~exists THEN "unknown"
    ELSE IF Contains(text, NAHCROF) THEN "nahcrof"
    ELSE IF Contains(text, CHUTES) THEN "chutes"
    ELSE "unknown"

\* pieces a config text is made of
ConfigTokens == <<NAHCROF, CHUTES, TomlKey, <<"\n">>>>

RECURSIVE ConfigTextsOf(_)
ConfigTextsOf(n) ==
    IF n = 0 THEN {<<>>}
    ELSE {t \o ConfigTokens[i] : t \in ConfigTextsOf(n - 1), i \in 1..Len(ConfigTokens)}

\* the config texts of at most MaxTokens pieces
ConfigTexts == UNION {ConfigTextsOf(n) : n \in 0..MaxTokens}

\* lines 169-177 on the config snapshot of one session
Detect ==
    /\ p_pc = "read"
    /\ provider_name' = DetectProvider(config_exists, content)
    /\ p_pc' = "detected"
    /\ UNCHANGED <<config_exists, content>>

provider_vars == <<p_pc, config_exists, content, provider_name>>

\* ------------------------------------------------ the files of the sessions

\* Session directory i stands for the path SessionPath(i); the days are chosen
\* so that the order of the paths is not the order of the indices.
SessionPath(i) == OUTPUT_SESSION_PREFIX \o NatToStr(10 + ((7 * i) % 11))

\* ord(c), for the characters of a session path
Ord(c) == CHOOSE k \in 1..Len(Ascii) : Ascii[k] = c

\* s < t, for Python strings: t goes on where s ends, or the first character
\* that differs is smaller in s
StrLess(s, t) ==
    \E k \in 1..(Min(Len(s), Len(t)) + 1) :
        /\ \A j \in 1..(k - 1) : s[j] = t[j]
        /\ \/ k = Len(s) + 1 /\ k <= Len(t)
           \/ k <= Len(s) /\ k <= Len(t) /\ Ord(s[k]) < Ord(t[k])

\* config.toml.bak of a session: the entry of ConfigFiles, 0 when there is none
ConfigFiles == <<NahcrofConfig, ChutesConfig>>

Repeat(l, n) == [k \in 1..n |-> l]

\* The files of the sessions main reads are texts: every line of them decodes.
\* dataset.jsonl of a session: the entry of DatasetFiles, 0 when there is none
DatasetFiles ==
    <<  \* one record, one malformed line, one line of neither shape
        <<DatasetLine1, DatasetLine20, DatasetLine18>>,
        \* nine records, two of them incomplete
        Repeat(DatasetLine1, 7) \o <<DatasetLine2, DatasetLine9>>  >>

\* session.log of a session: the entry of LogFiles, 0 when there is none
LogFiles ==
    <<  \* 90 job lines, the last a malformed one, no failure caught
        Repeat(LogLine1, 88) \o <<LogLine2, LogLine21>>,
        \* 90 job lines, one failure caught, the pipeline summary
        Repeat(LogLine1, 90) \o <<LogLine3, LogLine14>>,
        \* 90 job lines, two failures caught
        Repeat(LogLine2, 45) \o <<LogLine4>> \o Repeat(LogLine1, 45) \o <<LogLine5>>,
        \* 89 job lines, one failure caught
        Repeat(LogLine1, 89) \o <<LogLine3, LogLine12>>  >>

\* the pairs of files a session directory holds
Workloads ==
    {[dataset |-> 2, log |-> 2],   \* 9 of 10 attempts succeeded
     [dataset |-> 1, log |-> 2],   \* 1 of 2
     [dataset |-> 1, log |-> 3],   \* 1 of 3
     [dataset |-> 0, log |-> 1],   \* no attempt at all
     [dataset |-> 1, log |-> 4],   \* fewer than 90 job lines
     [dataset |-> 1, log |-> 0]}   \* no log

NoDirectory == [exists |-> FALSE, config |-> 0, dataset |-> 0, log |-> 0]

Directories ==
    {NoDirectory} \cup
    {[exists |-> TRUE, config |-> c, dataset |-> w.dataset, log |-> w.log] :
        c \in 0..Len(ConfigFiles), w \in Workloads}

\* --------------------------------------------------------------------- main

VARIABLES
    base_exists,       \* os.path.exists(args.base_dir)
    fs,                \* the session_* entries of base_dir
    argv_sessions,     \* args.sessions
    max_auto,          \* args.max_auto
    pc,                \* where main stands
    sessions,          \* the sessions to analyze
    analyses,          \* the analyses of the sessions that exist
    provider_results,  \* comparison mode: the analysis kept per provider
    provider_groups,   \* the analyses of each provider
    verdict,           \* comparison mode: the verdict printed
    results_file       \* the document at tests/api-reliability-test/results.json

\* The loops of lines 33-63 and 69-87 over a whole file: the lines of the first
\* half, then those of the second half, starting from the dict the first half
\* left.  That dict is looked at before the second half is read (it never is
\* without keys), so that the halves are evaluated in order.
RECURSIVE ScanDataset(_, _)
ScanDataset(a, lines) ==
    IF lines = <<>> THEN a
    ELSE IF Len(lines) = 1 THEN DatasetStep(a, lines[1])
    ELSE LET half == Len(lines) \div 2
             first == ScanDataset(a, SubSeq(lines, 1, half))
         IN  IF DOMAIN first = {} THEN first
             ELSE ScanDataset(first, SubSeq(lines, half + 1, Len(lines)))

RECURSIVE ScanLog(_, _)
ScanLog(a, lines) ==
    IF lines = <<>> THEN a
    ELSE IF Len(lines) = 1 THEN LogStep(a, lines[1])
    ELSE LET half == Len(lines) \div 2
             first == ScanLog(a, SubSeq(lines, 1, half))
         IN  IF DOMAIN first = {} THEN first
             ELSE ScanLog(first, SubSeq(lines, half + 1, Len(lines)))

\* the whole of analyze_session on a directory that exists, holding dataset d
\* and log l
AnalyzeFiles(dir, d, l) ==
    LET a0 == NewAnalysis(dir)
        a1 == IF d # 0 THEN ScanDataset(a0, DatasetFiles[d]) ELSE a0
    IN  IF l # 0 THEN ScanLog(a1, LogFiles[l]) ELSE a1

\* AnalyzeFiles, computed once for each directory and pair of files
AnalysisTable ==
    [dir \in 1..NumSessions, d \in 0..Len(DatasetFiles), l \in 0..Len(LogFiles) |->
        AnalyzeFiles(dir, d, l)]

\* analyze_session(session_dir)
analyze_session(dir) ==
    IF ~fs[dir].exists THEN PyNone
    ELSE AnalysisTable[dir, fs[dir].dataset, fs[dir].log]

\* line 109
IsJobLine(l) ==
    Contains(l.raw, JOB_PROCESSING_BREAKDOWN) \/ Contains(l.raw, JOB_FAILED)

\* The loop of lines 107-113 from job_count on: job_count when the loop ends, at
\* the break of line 113 or at the end of the lines.  The lines of the first half
\* are read, then those of the second half.
RECURSIVE CountJobs(_, _)
CountJobs(lines, job_count) ==
    IF job_count >= StressJobs \/ lines = <<>> THEN job_count
    ELSE IF Len(lines) = 1
    THEN IF IsJobLine(lines[1]) THEN job_count + 1 ELSE job_count
    ELSE LET half == Len(lines) \div 2
         IN  CountJobs(SubSeq(lines, half + 1, Len(lines)),
                       CountJobs(SubSeq(lines, 1, half), job_count))

\* lines 106-113 append the session: job_count reached 90
ReachesStressJobs(lines) == CountJobs(lines, 0) >= StressJobs

\* ReachesStressJobs, computed once for each log
IsStressLog == [l \in 1..Len(LogFiles) |-> ReachesStressJobs(LogFiles[l])]

\* sorted(glob.glob(os.path.join(base_dir, 'session_*')), reverse=True)
RECURSIVE SortedReverse(_)
SortedReverse(dirs) ==
    IF dirs = {} THEN <<>>
    ELSE LET greatest == CHOOSE d \in dirs :
                 \A e \in dirs \ {d} : StrLess(SessionPath(e), SessionPath(d))
         IN  <<greatest>> \o SortedReverse(dirs \ {greatest})

\* the loop of lines 102-115
RECURSIVE ScanSessions(_, _, _)
ScanSessions(dirs, found, max_sessions) ==
    IF dirs = <<>> THEN found
    ELSE LET dir == Head(dirs)
             log == fs[dir].log
             found2 == IF log # 0 /\ IsStressLog[log] THEN Append(found, dir) ELSE found
         IN  IF Len(found2) >= max_sessions THEN found2
             ELSE ScanSessions(Tail(dirs), found2, max_sessions)

\* lines 100-117
find_latest_sessions(max_sessions) ==
    IF base_exists
    THEN ScanSessions(SortedReverse({d \in 1..NumSessions : fs[d].exists}), <<>>, max_sessions)
    ELSE <<>>

\* the provider of each config, computed once
ConfigProvider ==
    [c \in 0..Len(ConfigFiles) |->
        DetectProvider(c # 0, IF c # 0 THEN ConfigFiles[c] ELSE <<>>)]

\* a loop that gives up at the first missing directory
RECURSIVE AnalyzeAllStopsAtMissing(_, _)
AnalyzeAllStopsAtMissing(dirs, done) ==
    IF dirs = <<>> THEN done
    ELSE LET dir == Head(dirs)
         IN  IF ~fs[dir].exists
             THEN done
             ELSE AnalyzeAllStopsAtMissing(Tail(dirs),
                      Append(done, SetKey(analyze_session(dir), "provider",
                                          ConfigProvider[fs[dir].config])))

\* the loop of lines 162-182
RECURSIVE AnalyzeAll(_, _)
AnalyzeAll(dirs, done) ==
    IF dirs = <<>> THEN done
    ELSE LET dir == Head(dirs)
         IN  IF ~fs[dir].exists
             THEN AnalyzeAll(Tail(dirs), done)
             ELSE LET a == analyze_session(dir)
                  IN  IF a # PyNone
                      THEN AnalyzeAll(Tail(dirs),
                               Append(done, SetKey(a, "provider",
                                                   ConfigProvider[fs[dir].config])))
                      ELSE AnalyzeAll(Tail(dirs), done)

\* the loop of lines 250-252
RECURSIVE KeepPerProvider(_, _)
KeepPerProvider(rs, kept) ==
    IF rs = <<>> THEN kept
    ELSE KeepPerProvider(Tail(rs), SetKey(kept, Head(rs).provider, Head(rs)))

\* the loops of lines 241-243 and 306-308
RECURSIVE GroupByProvider(_, _)
GroupByProvider(rs, groups) ==
    IF rs = <<>> THEN groups
    ELSE LET p == Head(rs).provider
             old == IF p \in DOMAIN groups THEN groups[p] ELSE <<>>
         IN  GroupByProvider(Tail(rs), SetKey(groups, p, Append(old, Head(rs))))

\* lines 315-326
TotalAttempts(r) ==
    r.total_records + r.caught_incomplete + r.caught_refusal + r.caught_missing_finish

\* Lines 328-333 compute total_records / total * 100 if total > 0 else 0 in
\* floating point; the model keeps the two integers, and compares the quotient
\* with a percentage exactly (the float comparison agrees for all counts up to
\* 400).
SuccessRate(r) == [records |-> r.total_records, total |-> TotalAttempts(r)]
\* success >= percent
RateAtLeast(success, percent) ==
    IF success.total > 0
    THEN 100 * success.records >= percent * success.total
    ELSE 0 >= percent
\* success < percent
RateBelow(success, percent) == ~RateAtLeast(success, percent)

\* a verdict that asks for more than 90
VerdictAbove(nahcrof_success, chutes_success) ==
    LET Above(s) == s.total > 0 /\ 100 * s.records > ReliableRate * s.total
    IN  IF Above(chutes_success) /\ RateBelow(nahcrof_success, UnreliableRate)
        THEN "chutes"
        ELSE IF Above(nahcrof_success) /\ RateBelow(chutes_success, UnreliableRate)
        THEN "nahcrof"
        ELSE IF Above(nahcrof_success) /\ Above(chutes_success)
        THEN "both_reliable"
        ELSE "both_issues"

\* lines 367-400
Verdict(nahcrof_success, chutes_success) ==
    IF RateAtLeast(chutes_success, ReliableRate) /\ RateBelow(nahcrof_success, UnreliableRate)
    THEN "chutes"
    ELSE IF RateAtLeast(nahcrof_success, ReliableRate) /\ RateBelow(chutes_success, UnreliableRate)
    THEN "nahcrof"
    ELSE IF RateAtLeast(nahcrof_success, ReliableRate) /\ RateAtLeast(chutes_success, ReliableRate)
    THEN "both_reliable"
    ELSE "both_issues"

\* a document that follows the mode
OutputByMode ==
    IF argv_sessions # <<>> THEN [sessions |-> analyses] ELSE provider_results

\* line 421
Output == [sessions |-> analyses]

\* `results_file' while nothing is written
NotWritten == [t |-> "absent"]
\* a dict with no key
EmptyDict == <<>>

\* lines 151-159
Start ==
    /\ pc = "start"
    /\ sessions' = IF argv_sessions # <<>> THEN argv_sessions
                   ELSE find_latest_sessions(max_auto)
    /\ pc' = IF sessions' = <<>> THEN "done" ELSE "analyze"
    /\ UNCHANGED <<base_exists, fs, argv_sessions, max_auto, analyses, provider_results,
                   provider_groups, verdict, results_file>>

\* lines 162-186
AnalyzeSessions ==
    /\ pc = "analyze"
    /\ analyses' = AnalyzeAll(sessions, <<>>)
    /\ pc' = IF analyses' = <<>> THEN "done" ELSE "report"
    /\ UNCHANGED <<base_exists, fs, argv_sessions, max_auto, sessions, provider_results,
                   provider_groups, verdict, results_file>>

\* lines 192-243: the per-session report
ReportSessions ==
    /\ pc = "report"
    /\ argv_sessions # <<>>
    /\ provider_groups' = GroupByProvider(analyses, EmptyDict)
    /\ pc' = "save"
    /\ UNCHANGED <<base_exists, fs, argv_sessions, max_auto, sessions, analyses,
                   provider_results, verdict, results_file>>

\* lines 244-400: the provider comparison
CompareProviders ==
    /\ pc = "report"
    /\ argv_sessions = <<>>
    /\ provider_results' = KeepPerProvider(analyses, EmptyDict)
    /\ provider_groups' = GroupByProvider(analyses, EmptyDict)
    /\ verdict' =
           IF "nahcrof" \in DOMAIN provider_groups' /\ "chutes" \in DOMAIN provider_groups'
           THEN Verdict(SuccessRate(provider_results'["nahcrof"]),
                        SuccessRate(provider_results'["chutes"]))
           ELSE "none"
    /\ pc' = "save"
    /\ UNCHANGED <<base_exists, fs, argv_sessions, max_auto, sessions, analyses, results_file>>

\* lines 420-426
Save ==
    /\ pc = "save"
    /\ results_file' = Output
    /\ pc' = "done"
    /\ UNCHANGED <<base_exists, fs, argv_sessions, max_auto, sessions, analyses,
                   provider_results, provider_groups, verdict>>

main_vars ==
    <<base_exists, fs, argv_sessions, max_auto, pc, sessions, analyses, provider_results,
      provider_groups, verdict, results_file>>

\* ----------------------------------------------------------- specifications

vars == <<session_vars, provider_vars, main_vars>>

\* analyze_session, detection and main when they are not the part under study
SessionIdle ==
    /\ a_pc = "idle"
    /\ session_dir = 1
    /\ analysis = NewAnalysis(1)
    /\ line = NoLine
    /\ line_of = "none"
    /\ before = NewAnalysis(1)
    /\ nRead = 0
    /\ result = NotReturned

ProviderIdle ==
    /\ p_pc = "idle"
    /\ config_exists = FALSE
    /\ content = <<>>
    /\ provider_name = "unknown"

MainIdle ==
    /\ pc = "idle"
    /\ base_exists = FALSE
    /\ fs = [d \in 1..NumSessions |-> NoDirectory]
    /\ argv_sessions = <<>>
    /\ max_auto = 2
    /\ sessions = <<>>
    /\ analyses = <<>>
    /\ provider_results = EmptyDict
    /\ provider_groups = EmptyDict
    /\ verdict = "none"
    /\ results_file = NotWritten

\* the sequences of at most n distinct session directories
RECURSIVE DistinctSeqs(_)
DistinctSeqs(n) ==
    IF n = 0 THEN {<<>>}
    ELSE LET shorter == DistinctSeqs(n - 1)
         IN  shorter \cup
             {Append(s, d) : s \in {x \in shorter : Len(x) = n - 1},
                             d \in 1..NumSessions}

ExplicitSessions ==
    {s \in DistinctSeqs(NumSessions) : s # <<>> /\ \A i, j \in 1..Len(s) : i # j => s[i] # s[j]}

\* main: any directories, and either explicit sessions or a --max-auto
Init ==
    /\ SessionIdle
    /\ ProviderIdle
    /\ pc = "start"
    /\ base_exists \in BOOLEAN
    /\ fs \in [1..NumSessions -> Directories]
    /\ base_exists \/ \A d \in 1..NumSessions : ~fs[d].exists
    /\ \/ argv_sessions = <<>> /\ max_auto \in (-1)..NumSessions
       \/ argv_sessions \in ExplicitSessions /\ max_auto = 2
    /\ sessions = <<>>
    /\ analyses = <<>>
    /\ provider_results = EmptyDict
    /\ provider_groups = EmptyDict
    /\ verdict = "none"
    /\ results_file = NotWritten

Next ==
    \/ Start /\ UNCHANGED <<session_vars, provider_vars>>
    \/ AnalyzeSessions /\ UNCHANGED <<session_vars, provider_vars>>
    \/ ReportSessions /\ UNCHANGED <<session_vars, provider_vars>>
    \/ CompareProviders /\ UNCHANGED <<session_vars, provider_vars>>
    \/ Save /\ UNCHANGED <<session_vars, provider_vars>>

Spec == Init /\ [][Next]_vars

\* analyze_session on one session directory, its files read line by line
SessionInit ==
    /\ MainIdle
    /\ ProviderIdle
    /\ a_pc = "enter"
    /\ session_dir = 1
    /\ analysis = NewAnalysis(1)
    /\ line = NoLine
    /\ line_of = "none"
    /\ before = NewAnalysis(1)
    /\ nRead = 0
    /\ result = NotReturned

SessionNext ==
    \/ Enter /\ UNCHANGED <<main_vars, provider_vars>>
    \/ OpenDataset /\ UNCHANGED <<main_vars, provider_vars>>
    \/ ReadDatasetLine /\ UNCHANGED <<main_vars, provider_vars>>
    \/ DatasetEOF /\ UNCHANGED <<main_vars, provider_vars>>
    \/ OpenLog /\ UNCHANGED <<main_vars, provider_vars>>
    \/ ReadLogLine /\ UNCHANGED <<main_vars, provider_vars>>
    \/ LogEOF /\ UNCHANGED <<main_vars, provider_vars>>

SessionSpec == SessionInit /\ [][SessionNext]_vars

\* provider detection on one config snapshot
ProviderInit ==
    /\ MainIdle
    /\ SessionIdle
    /\ p_pc = "read"
    /\ config_exists \in BOOLEAN
    /\ content \in ConfigTexts
    /\ config_exists \/ content = <<>>
    /\ provider_name = "unknown"

ProviderNext == Detect /\ UNCHANGED <<main_vars, session_vars>>

ProviderSpec == ProviderInit /\ [][ProviderNext]_vars

\* ------------------------------------------- properties of analyze_session

\* `line' is a line of dataset.jsonl (of session.log), `before' and `analysis'
\* the dict before and after the loop body ran on it
AtDatasetLine == line_of = "dataset.jsonl"
AtLogLine == line_of = "session.log"

\* counter f went up by one (did not move) over `line'
Rose(f) == analysis[f] = before[f] + 1
Same(f) == analysis[f] = before[f]

DatasetFields == {"total_records", "complete", "incomplete", "empty", "sample_incomplete"}
Classes == {"complete", "incomplete", "empty"}
DatasetUntouched == \A f \in DatasetFields : Same(f)
\* the record of `line' went to class c and to no other
ClassifiedAs(c) == Rose(c) /\ \A d \in Classes \ {c} : Same(d)

\* an output text was extracted from the record of `line'
Extracted == ~DatasetRaises(line.json) /\ OutputValue(line.json).found
\* that text, before it is trimmed
ExtractedText == PyStrOf(OutputValue(line.json).value)

IsSpace(c) == c \in {" ", "\t", "\n", "\r", "\f"}
NonSpaces(s) == {k \in 1..Len(s) : ~IsSpace(s[k])}
\* s from its first character that is no whitespace to its last
Trimmed(s) ==
    LET at == NonSpaces(s)
    IN  IF at = {} THEN <<>>
        ELSE SubSeq(s, CHOOSE i \in at : \A k \in at : i <= k,
                       CHOOSE j \in at : \A k \in at : k <= j)

\* C5: total_records = complete + incomplete + empty after every prefix of the
\* dataset lines, and a record an output text was extracted from adds one to
\* total_records and one to exactly one of complete, incomplete, empty.
C5_TotalIsSumOfClasses ==
    /\ analysis.total_records = analysis.complete + analysis.incomplete + analysis.empty
    /\ (AtDatasetLine /\ Extracted) =>
           /\ Rose("total_records")
           /\ \E c \in Classes : ClassifiedAs(c)

\* C5 witness: records of all three classes have been counted
C5_Witness ==
    /\ AtDatasetLine /\ Extracted
    /\ analysis.complete > 0 /\ analysis.incomplete > 0 /\ analysis.empty > 0

\* The record of `line' yields a string by one of the two shapes, as C6 reads
\* them: "output" holds a string, or else the last element of "conversations"
\* is an object whose "value" holds a string.
OutputIsString(record) == HasKey(record, "output") /\ IsStr(record.v["output"])
HasLastTurnValue(record) ==
    /\ HasKey(record, "conversations")
    /\ IsList(record.v["conversations"])
    /\ record.v["conversations"].v # <<>>
    /\ LET turns == record.v["conversations"].v
       IN  IsDict(turns[Len(turns)]) /\ HasKey(turns[Len(turns)], "value")
LastTurnValue(record) ==
    LET turns == record.v["conversations"].v IN turns[Len(turns)].v["value"]
LastTurnIsString(record) == HasLastTurnValue(record) /\ IsStr(LastTurnValue(record))

\* C6 as stated: a record is counted only when a shape yields a string, the
\* turn sequence being tried when "output" yields none; any other record
\* leaves total_records, complete, incomplete, empty, sample_incomplete alone.
C6_OnlyStringsCounted ==
    (AtDatasetLine /\ IsDict(line.json)) =>
        LET record == line.json
        IN  IF OutputIsString(record)
            THEN analysis = CountRecord(before, Trimmed(record.v["output"].v))
            ELSE IF LastTurnIsString(record)
            THEN analysis = CountRecord(before, Trimmed(LastTurnValue(record).v))
            ELSE DatasetUntouched

\* C6 amended: a record is counted iff it is an object that has the key
\* "output", whatever its value, or else has a non-empty list "conversations"
\* whose last element is an object with the key "value", whatever its value; the
\* text is str() of that value, and the turn sequence is consulted only when the
\* key "output" is absent.  Every other line leaves the five fields alone.
C6_KeysDecideCounting ==
    AtDatasetLine =>
        LET record == line.json
        IN  IF IsDict(record) /\ HasKey(record, "output")
            THEN analysis = CountRecord(before, Trimmed(PyStrOf(record.v["output"])))
            ELSE IF IsDict(record) /\ HasLastTurnValue(record)
            THEN analysis = CountRecord(before, Trimmed(PyStrOf(LastTurnValue(record))))
            ELSE DatasetUntouched

\* C6 witness: a record with a number under "output" and a complete sentence
\* in its turn sequence has been counted as incomplete
C6_Witness ==
    /\ AtDatasetLine
    /\ line = DatasetLine12
    /\ ClassifiedAs("incomplete")

\* C10: the trimmed text decides the class: empty when it is empty, complete
\* when its last character is one of . ! ? ", incomplete otherwise.
C10_ClassByLastCharacter ==
    (AtDatasetLine /\ Extracted) =>
        LET text == Trimmed(ExtractedText)
        IN  IF text = <<>> THEN ClassifiedAs("empty")
            ELSE IF text[Len(text)] \in {".", "!", "?", "\""} THEN ClassifiedAs("complete")
            ELSE ClassifiedAs("incomplete")

\* C10 witness: a text that ends in a double quote followed by whitespace has
\* been classified
C10_Witness ==
    /\ AtDatasetLine
    /\ line = DatasetLine6
    /\ ClassifiedAs("complete")

\* the sample C9 describes for a trimmed text
SampleOf(text) ==
    [length |-> Len(text),
     ending |-> IF Len(text) < 60 THEN text ELSE SubSeq(text, Len(text) - 59, Len(text))]

\* C9: sample_incomplete never holds more than 3 entries; it holds
\* min(3, incomplete) of them; a record classified incomplete appends its sample
\* when fewer than 3 are held and appends nothing otherwise, and no other line
\* changes the list: so the list is the first min(3, incomplete) incomplete
\* records in file order.
C9_FirstThreeSamples ==
    /\ Len(analysis.sample_incomplete) <= 3
    /\ Len(analysis.sample_incomplete) = Min(3, analysis.incomplete)
    /\ AtDatasetLine =>
           IF Extracted /\ Rose("incomplete")
           THEN IF Len(before.sample_incomplete) < 3
                THEN analysis.sample_incomplete =
                         Append(before.sample_incomplete, SampleOf(Trimmed(ExtractedText)))
                ELSE analysis.sample_incomplete = before.sample_incomplete
           ELSE Same("sample_incomplete") /\ Same("incomplete")
    /\ AtLogLine => Same("sample_incomplete") /\ Same("incomplete")

\* C9 witness: a fourth incomplete record has been read, the samples hold
\* three, one of them of a text longer than 60 characters
C9_Witness ==
    /\ AtDatasetLine
    /\ analysis.incomplete = 4
    /\ Len(analysis.sample_incomplete) = 3
    /\ before.sample_incomplete = analysis.sample_incomplete
    /\ \E i \in 1..3 : analysis.sample_incomplete[i].length > 60

\* the message of the event of `line', a string
EventMsg == Get(line.json, "msg", PyStr(<<>>)).v
\* `line' is an event whose message is a string (or is absent, and read as '')
AtStringEvent ==
    AtLogLine /\ IsDict(line.json) /\ IsStr(Get(line.json, "msg", PyStr(<<>>)))
LevelIsWarnOrError ==
    /\ HasKey(line.json, "level")
    /\ line.json.v["level"] \in {PyStr(<<"W", "A", "R", "N">>), PyStr(<<"E", "R", "R", "O", "R">>)}
SaysIncomplete == Contains(EventMsg, INCOMPLETE_OUTPUT_DETECTED)
SaysFinish == Contains(EventMsg, INVALID_FINISH_REASON)
SaysRefusal == Contains(Lower(EventMsg), REFUSED) /\ Contains(EventMsg, CHOSEN_RESPONSE)
Caught == {"caught_incomplete", "caught_missing_finish", "caught_refusal"}
\* counter f rose iff b, and did not move otherwise
RoseIff(f, b) == IF b THEN Rose(f) ELSE Same(f)

\* C4 as stated: on a WARN or ERROR event each of the three counters rises iff
\* its own pattern is in the message, independently of the other two; an event
\* of another level moves none.
C4_TagsIndependent ==
    AtStringEvent =>
        IF LevelIsWarnOrError
        THEN /\ RoseIff("caught_incomplete", SaysIncomplete)
             /\ RoseIff("caught_missing_finish", SaysFinish)
             /\ RoseIff("caught_refusal", SaysRefusal)
        ELSE \A f \in Caught : Same(f)

\* C4 amended: on a WARN or ERROR event at most one counter rises, the first
\* of caught_incomplete, caught_missing_finish, caught_refusal whose pattern is
\* in the message; an event of another level moves none.
C4_FirstTagWins ==
    AtStringEvent =>
        IF LevelIsWarnOrError
        THEN /\ RoseIff("caught_incomplete", SaysIncomplete)
             /\ RoseIff("caught_missing_finish", ~SaysIncomplete /\ SaysFinish)
             /\ RoseIff("caught_refusal", ~SaysIncomplete /\ ~SaysFinish /\ SaysRefusal)
        ELSE \A f \in Caught : Same(f)

\* C4 witness: an ERROR event whose message holds two patterns has been read
C4_Witness ==
    /\ AtStringEvent /\ LevelIsWarnOrError
    /\ SaysIncomplete /\ SaysFinish
    /\ Rose("caught_incomplete") /\ Same("caught_missing_finish")

\* ------------------------------------------- properties of provider detection

\* needle stands in text at offset i
OccursAt(text, needle, i) ==
    /\ i + Len(needle) - 1 <= Len(text)
    /\ \A j \in 1..Len(needle) : text[i + j - 1] = needle[j]
Occurs(text, needle) == \E i \in 1..Len(text) : OccursAt(text, needle, i)
\* the offset of the first occurrence of a needle that occurs
FirstOffset(text, needle) ==
    CHOOSE i \in 1..Len(text) :
        OccursAt(text, needle, i) /\ \A k \in 1..(i - 1) : ~OccursAt(text, needle, k)

Detected == p_pc = "detected"
HasNahcrof == config_exists /\ Occurs(content, NAHCROF)
HasChutes == config_exists /\ Occurs(content, CHUTES)

\* C3 as stated: the provider is the one whose substring occurs first in the
\* text; a text with only one of them yields that one; a missing file or a text
\* with neither yields "unknown".
C3_FirstOccurrenceWins ==
    Detected =>
        provider_name =
            IF HasNahcrof /\ HasChutes
            THEN IF FirstOffset(content, NAHCROF) < FirstOffset(content, CHUTES)
                 THEN "nahcrof" ELSE "chutes"
            ELSE IF HasNahcrof THEN "nahcrof"
            ELSE IF HasChutes THEN "chutes"
            ELSE "unknown"

\* C3 amended: the provider is "nahcrof" whenever "nahcrof" occurs in the text,
\* wherever "chutes" stands; it is "chutes" when only "chutes" occurs; a missing
\* file or a text with neither yields "unknown".
C3_NahcrofWins ==
    Detected =>
        provider_name =
            IF HasNahcrof THEN "nahcrof"
            ELSE IF HasChutes THEN "chutes"
            ELSE "unknown"

\* C3 witness: "chutes" stands before "nahcrof" and the provider is nahcrof
C3_Witness ==
    /\ Detected
    /\ HasNahcrof /\ HasChutes
    /\ FirstOffset(content, CHUTES) < FirstOffset(content, NAHCROF)
    /\ provider_name = "nahcrof"

\* ------------------------------------------------------- properties of main

\* no session was named on the command line
ComparisonMode == argv_sessions = <<>>
\* the report has been computed
Reported == pc = "save" \/ (pc = "done" /\ results_file # NotWritten)
Written == results_file # NotWritten

\* C1: in comparison mode the analysis kept for a provider is the one of its
\* most recent session, the one whose path is the greatest.
C1_MostRecentKept ==
    (Reported /\ ComparisonMode) =>
        \A p \in DOMAIN provider_results :
            \A k \in 1..Len(analyses) :
                analyses[k].provider = p =>
                    \/ analyses[k].session_dir = provider_results[p].session_dir
                    \/ StrLess(SessionPath(analyses[k].session_dir),
                               SessionPath(provider_results[p].session_dir))

\* C2 as stated: the document is {"sessions": analyses} in per-session mode and
\* the provider-keyed map in comparison mode.
C2_DocumentByMode ==
    Written =>
        IF ComparisonMode
        THEN results_file = provider_results
        ELSE results_file = [sessions |-> analyses]

\* the sessions of `sessions' whose directory exists, in order
RECURSIVE Existing(_)
Existing(dirs) ==
    IF dirs = <<>> THEN <<>>
    ELSE IF fs[Head(dirs)].exists THEN <<Head(dirs)>> \o Existing(Tail(dirs))
    ELSE Existing(Tail(dirs))

\* C2 amended: in both modes the document is the full list of the session
\* analyses, one per session whose directory exists, under the key "sessions".
C2_SessionsInBothModes ==
    Written =>
        /\ DOMAIN results_file = {"sessions"}
        /\ results_file.sessions = analyses
        /\ Len(analyses) = Len(Existing(sessions))
        /\ \A k \in 1..Len(analyses) : analyses[k].session_dir = Existing(sessions)[k]

\* C2 witness: comparison mode wrote two analyses of one provider
C2_Witness ==
    /\ Written
    /\ ComparisonMode
    /\ Len(results_file.sessions) = 2
    /\ results_file.sessions[1].provider = results_file.sessions[2].provider

\* the lines of each log that hold one of the two job patterns
JobLineCount ==
    [l \in 1..Len(LogFiles) |->
        Cardinality({k \in 1..Len(LogFiles[l]) : IsJobLine(LogFiles[l][k])})]
\* the directories C7 calls qualifying
Qualifying ==
    {d \in 1..NumSessions :
        base_exists /\ fs[d].exists /\ fs[d].log # 0 /\ JobLineCount[fs[d].log] >= 90}

\* C7: for a limit >= 0 the sessions discovered are the first min(limit, q)
\* qualifying directories in descending order of their names.
C7_FirstQualifyingUpToLimit ==
    (pc # "start" /\ ComparisonMode /\ max_auto >= 0) =>
        sessions = SubSeq(SortedReverse(Qualifying), 1,
                          Min(max_auto, Cardinality(Qualifying)))

\* the success rate of r is at least 90 (is below 50): total_records over the
\* attempts, times 100, and 0 when there is no attempt
Attempts(r) ==
    r.total_records + r.caught_incomplete + r.caught_refusal + r.caught_missing_finish
AtLeast90(r) == Attempts(r) > 0 /\ 100 * r.total_records >= 90 * Attempts(r)
Below50(r) == Attempts(r) = 0 \/ 100 * r.total_records < 50 * Attempts(r)
BothPresent == {"nahcrof", "chutes"} \subseteq DOMAIN provider_results

\* C8: with both providers present in comparison mode exactly one verdict is
\* produced: X is significantly more reliable iff X's rate >= 90 and the
\* other's < 50; otherwise both reliable iff both rates >= 90; otherwise both
\* have issues.
C8_VerdictFromRates ==
    (Reported /\ ComparisonMode /\ BothPresent) =>
        LET n == provider_results["nahcrof"]
            c == provider_results["chutes"]
        IN  /\ verdict \in {"chutes", "nahcrof", "both_reliable", "both_issues"}
            /\ verdict = "chutes" <=> (AtLeast90(c) /\ Below50(n))
            /\ verdict = "nahcrof" <=> (AtLeast90(n) /\ Below50(c))
            /\ verdict = "both_reliable" <=> (AtLeast90(n) /\ AtLeast90(c))
            /\ verdict = "both_issues" <=>
                   /\ ~(AtLeast90(c) /\ Below50(n))
                   /\ ~(AtLeast90(n) /\ Below50(c))
                   /\ ~(AtLeast90(n) /\ AtLeast90(c))

\* C8 witness: chutes at exactly 90 percent, nahcrof below 50, chutes wins
C8_Witness ==
    /\ Reported /\ ComparisonMode /\ BothPresent
    /\ provider_results["chutes"].total_records = 9
    /\ Attempts(provider_results["chutes"]) = 10
    /\ Below50(provider_results["nahcrof"])
    /\ verdict = "chutes"

\* ------------------------------------------------ lines that cannot be processed

\* the line just read cannot be processed: its bytes are no text, it is no
\* JSON, or its handling raises
Unprocessable ==
    /\ line # NoLine
    /\ \/ ~Decodes(line)
       \/ AtDatasetLine /\ DatasetRaises(JsonLoads(line))
       \/ AtLogLine /\ LogRaises(JsonLoads(line))

\* the scan goes on to the following lines, or has reached the end of the file
ScanContinues == a_pc \in {"dataset", "open_log", "log", "returned"}

\* C11: a line of dataset.jsonl or session.log that cannot be processed leaves
\* every field of the analysis as it was (no counter, no sample, no
\* pipeline-summary field) and the scan continues with the following lines;
\* the step of a line being a function of the analysis and the line, the
\* final analysis is then that of the file without the line.
C11_UnprocessableLineSkipped ==
    Unprocessable => (analysis = before /\ ScanContinues)

\* ------------------------------------------------------- runs without analysis

\* no session of `sessions' has its directory (none supplied or discovered, or
\* all of them missing)
NoneExists == \A k \in 1..Len(sessions) : ~fs[sessions[k]].exists
\* the loop over the sessions has run
Analyzed == pc \in {"report", "save"} \/ (pc = "done" /\ sessions # <<>>)
\* the analysis analyze_session gives for an existing directory
AnalysisOf(dir) == AnalysisTable[dir, fs[dir].dataset, fs[dir].log]

\* C12: the results file is written only in runs that produced at least one
\* session analysis; with no session supplied or discovered, or with every
\* session directory missing, it is never written; and a missing directory
\* among others is dropped while each of the others is analysed in full, in
\* order.
C12_FileOnlyWithAnalyses ==
    /\ Written => analyses # <<>>
    /\ NoneExists => ~Written
    /\ Analyzed =>
          /\ Len(analyses) = Len(Existing(sessions))
          /\ \A k \in 1..Len(analyses) :
                LET dir == Existing(sessions)[k]
                IN  \A f \in DOMAIN AnalysisOf(dir) : analyses[k][f] = AnalysisOf(dir)[f]

\* C12 witness: of two sessions supplied the first is missing, and the run
\* wrote the analysis of the second
C12_Witness ==
    /\ pc = "done"
    /\ Len(sessions) = 2
    /\ ~fs[sessions[1]].exists
    /\ fs[sessions[2]].exists
    /\ Written
    /\ Len(results_file.sessions) = 1
    /\ results_file.sessions[1].session_dir = sessions[2]


====
